---- MODULE Spec2Model ----
(***************************************************************************)
(* Model of src/app.py: a LINE webhook bot that relays each text message   *)
(* to the x.ai completion endpoint under a global concurrency cap and      *)
(* sends the answer back in chunks.                                        *)
(*                                                                         *)
(* A Python str is modelled as the sequence of its Unicode code points.    *)
(* The handler threads are anonymous and run the same code, so the set of  *)
(* live handle_message invocations is a bag of per-invocation records.     *)
(***************************************************************************)
EXTENDS Bags, FiniteSets, Integers, Sequences, TLC

VARIABLES
    current_requests,   \* app.py:40, the shared counter
    counter_lock,       \* app.py:41, TRUE while some thread holds the Lock
    pending,            \* webhook events not yet dispatched to handle_message
    invocations,        \* bag of handle_message invocations (their locals and position)
    chunker             \* a call of split_message on its own: its arguments, locals and position

vars == <<current_requests, counter_lock, pending, invocations, chunker>>

-----------------------------------------------------------------------------
(* Program constants *)

MAX_LINE_MESSAGE_LENGTH == 1000

MAX_CONCURRENT_REQUESTS == 5

\* reply_long_text: a reply call carries at most 5 messages (app.py:150,154,156)
REPLY_LIMIT == 5

\* the three "why no response" queries of app.py:192
SHORTCUT_QUERIES ==
    { <<26597,35426,21407,22240>>,
      <<28858,20160,40636,27794,26377,22238,25033>>,
      <<28961,22238,25033,21407,22240>> }

\* the trigger substring of app.py:232
TRIGGER == <<23450,32681>>

\* the canned explanation of app.py:195
CANNED_REPLY ==
    <<21487,33021,21407,22240,21253,25324,65306,31995,32113,32321,24537,12289,65,80,73,32,22238,
      25033,24310,36978,25110,32178,32097,21839,38988,12290,35531,31245,24460,20877,35430,25110,
      32879,32363,25105,20497,12290>>

\* the busy message of app.py:205
BUSY_REPLY ==
    <<20302,25104,26412,32173,36939,20013,128517,32,30446,21069,31995,32113,32321,24537,65292,31561,
      31561,22312,35430,35430,21543,65281>>

\* call_xai_api, non-200 status (app.py:118); the same text is the default of app.py:228
ERR_STATUS ==
    <<23565,19981,36215,65292,29983,25104,22238,25033,26178,30332,29983,37679,35492,12290,21487,
      33021,21407,22240,21253,25324,65306,31995,32113,32321,24537,12289,65,80,73,32,22238,25033,
      24310,36978,25110,32178,32097,21839,38988,65292,35531,31245,24460,20877,35430,12290>>

\* call_xai_api, exception (app.py:121)
ERR_EXCEPTION ==
    <<23565,19981,36215,65292,29983,25104,22238,25033,26178,30332,29983,20363,22806,12290,21487,
      33021,21407,22240,21253,25324,65306,31995,32113,32321,24537,12289,65,80,73,32,22238,25033,
      24310,36978,25110,32178,32097,21839,38988,65292,35531,31245,24460,20877,35430,12290>>

\* get_api_response, exception in the thread (app.py:173)
ERR_THREAD ==
    <<29983,25104,22238,25033,26178,30332,29983,37679,35492,65292,35531,31245,24460,20877,35430,
      12290>>

\* the default handed to container.get at app.py:228
DEFAULT_RESPONSE == ERR_STATUS

\* the separator "\n\n" of app.py:233
SEPARATOR == <<10, 10>>

EXTRA_BLOCK ==
    <<80,77,80,32,31572,38988,24605,32173,10,45,32,26159,21542,25033,35442,36981,24490,32,80,77,66,
      79,75,32,30340,27969,31243,65311,26159,30340,65292,80,68,77,32,26159,32,80,77,66,79,75,32,
      31532,32,54,32,29256,31532,32,54,32,31456,12298,23560,26696,26178,38291,31649,29702,12299,
      30340,19968,37096,20998,65292,29305,21029,26159,22312,27963,21205,25490,24207,36942,31243,
      20013,20351,29992,12290,10,45,32,36889,20491,36984,38917,26159,21542,33287,32,80,77,80,32,
      26368,20339,23526,36368,30456,31526,65311,26159,30340,65292,20351,29992,32,80,68,77,32,32362,
      35069,27963,21205,20043,38291,30340,37007,36655,38364,20418,26159,31526,21512,32,80,77,73,32,
      30340,26368,20339,23526,36368,12290,10,45,32,26159,21542,38656,35201,33287,21033,23475,38364,
      20418,20154,21332,21830,65292,25110,36981,24490,35722,26356,31649,29702,27969,31243,65311,
      22312,32362,35069,32,80,68,77,32,30340,38542,27573,65292,36890,24120,19981,38656,35201,33287,
      21033,23475,38364,20418,20154,21332,21830,65292,20294,22914,26524,27963,21205,20043,38291,
      30340,20381,36084,38364,20418,35722,26356,65292,21487,33021,38656,35201,21855,21205,35722,
      26356,31649,29702,27969,31243,12290,10,10,12304,80,77,66,79,75,32,31456,31680,21443,32771,
      12305,65306,80,77,66,79,75,32,31532,32,54,32,29256,65292,31532,32,54,32,31456,12298,23560,
      26696,26178,38291,31649,29702,12299,12290>>

NEWLINE == 10

SPACE == 32

\* the code points for which Python's str.isspace() holds: what strip, lstrip and rstrip remove
Whitespace ==
    {9, 10, 11, 12, 13, 28, 29, 30, 31, 32, 133, 160, 5760} \cup (8192..8202)
        \cup {8232, 8233, 8239, 8287, 12288}

-----------------------------------------------------------------------------
(* Python str operations, on sequences of code points *)

\* s[lo:hi] with 0 <= lo, 0 <= hi (0-based, hi exclusive, clipped to the length)
Slice(s, lo, hi) ==
    LET h == IF hi > Len(s) THEN Len(s) ELSE hi
    IN IF lo >= h THEN <<>> ELSE SubSeq(s, lo + 1, h)

\* s.rfind(ch, start, end) for a one-character ch: the highest 0-based index in
\* [start, end) that holds ch, or -1
rfind(s, ch, start, end) ==
    LET h == IF end > Len(s) THEN Len(s) ELSE end
    IN IF \E i \in start..(h - 1) : s[i + 1] = ch
       THEN CHOOSE i \in start..(h - 1) :
                s[i + 1] = ch /\ \A j \in (i + 1)..(h - 1) : s[j + 1] # ch
       ELSE -1

\* s.rstrip(): s up to its last character that is not whitespace
rstrip(s) ==
    IF \A i \in 1..Len(s) : s[i] \in Whitespace
    THEN <<>>
    ELSE SubSeq(s, 1, CHOOSE p \in 1..Len(s) :
                          s[p] \notin Whitespace /\ \A j \in (p + 1)..Len(s) : s[j] \in Whitespace)

\* s.lstrip(): s from its first character that is not whitespace
lstrip(s) ==
    IF \A i \in 1..Len(s) : s[i] \in Whitespace
    THEN <<>>
    ELSE SubSeq(s, CHOOSE p \in 1..Len(s) :
                       s[p] \notin Whitespace /\ \A j \in 1..(p - 1) : s[j] \in Whitespace,
                Len(s))

\* s.strip()
strip(s) == rstrip(lstrip(s))

\* sub in s
Contains(s, sub) ==
    \E i \in 0..(Len(s) - Len(sub)) : SubSeq(s, i + 1, i + Len(sub)) = sub

-----------------------------------------------------------------------------
(* split_message, app.py:123-139 *)

\* app.py:130-134 with max_length + 1 as the fallback cut of app.py:134
SplitPosCutsPastLimit(text, max_length) ==
    LET nl == rfind(text, NEWLINE, 0, max_length)
        pos == IF nl = -1 THEN rfind(text, SPACE, 0, max_length) ELSE nl
    IN IF pos = -1 \/ pos < max_length \div 2 THEN max_length + 1 ELSE pos

\* app.py:130-134 with the space searched also when the newline found is too early
SplitPosPrefersLaterSpace(text, max_length) ==
    LET nl == rfind(text, NEWLINE, 0, max_length)
        pos == IF nl = -1 \/ nl < max_length \div 2
               THEN rfind(text, SPACE, 0, max_length) ELSE nl
    IN IF pos = -1 \/ pos < max_length \div 2 THEN max_length ELSE pos

\* the cut position chosen by one iteration of the while loop (app.py:130-134)
SplitPos(text, max_length) ==
    LET nl == rfind(text, NEWLINE, 0, max_length)
        pos == IF nl = -1 THEN rfind(text, SPACE, 0, max_length) ELSE nl
    IN IF pos = -1 \/ pos < max_length \div 2 THEN max_length ELSE pos

RECURSIVE SplitLoop(_, _, _)
\* the while loop of app.py:129-136 followed by app.py:137-139
SplitLoop(text, max_length, parts) ==
    IF Len(text) > max_length
    THEN LET split_pos == SplitPos(text, max_length)
         IN SplitLoop(lstrip(Slice(text, split_pos, Len(text))), max_length,
                      Append(parts, rstrip(Slice(text, 0, split_pos))))
    ELSE IF text # <<>> THEN Append(parts, text) ELSE parts

split_message(text, max_length) == SplitLoop(text, max_length, <<>>)

-----------------------------------------------------------------------------
(* Bounds and the inputs drawn by the environment *)

\* webhook events delivered in a run of Spec (one more than the ceiling, so that
\* the busy path is taken while the ceiling is reached)
NumInvocations == 6

\* the longest upstream answer, in full segments of MAX_LINE_MESSAGE_LENGTH
MaxSegments == 7

Repeat(ch, n) == [i \in 1..n |-> ch]

\* n - 1 full segments and one more character, without any whitespace
SolidText(n) == IF n = 0 THEN <<>> ELSE Repeat(97, MAX_LINE_MESSAGE_LENGTH * (n - 1) + 1)

\* words of nine letters separated by one space, n - 1 full segments and a half;
\* for n = 0 an answer of nothing but whitespace
WordedText(n) ==
    IF n = 0 THEN <<32, 10>>
    ELSE [i \in 1..(MAX_LINE_MESSAGE_LENGTH * (n - 1) + MAX_LINE_MESSAGE_LENGTH \div 2)
            |-> IF i % 10 = 0 THEN SPACE ELSE 98]

\* what requests.post can do at app.py:112: raise, or return a status and a body
\* whose choices[0].message.content is `content`
Upstream(raises, status_code, content) ==
    [raises |-> raises, status_code |-> status_code, content |-> content]

\* texts of the inbound events of Spec: a padded shortcut query and a plain question
GateTexts == { <<32, 26597,35426,21407,22240, 10>>, <<80, 77, 80, 63>> }

GateOutcomes == { Upstream(FALSE, 200, <<79, 75>>) }

\* texts of the inbound events of SpecDeliver: the three shortcut queries (one padded),
\* a question that only contains a shortcut query, a plain question, and a padded
\* question with the trigger substring
DeliverTexts ==
    SHORTCUT_QUERIES \cup
    { <<12288, 26597,35426,21407,22240, 32>>,
      <<26597,35426,21407,22240, 63>>,
      <<80, 77, 80, 63>>,
      <<32, 80, 68, 77, 23450,32681, 63, 10>> }

DeliverOutcomes ==
    { Upstream(FALSE, 200, SolidText(n)) : n \in 0..MaxSegments } \cup
    { Upstream(FALSE, 200, WordedText(n)) : n \in 0..MaxSegments } \cup
    { Upstream(FALSE, 500, <<>>), Upstream(TRUE, 0, <<>>) }

-----------------------------------------------------------------------------
(* The locals of one handle_message invocation *)

\* an entry of the record of external calls an invocation has made: ok is FALSE
\* when the call raised to the code that made it
Call(op, messages, ok) == [op |-> op, messages |-> messages, ok |-> ok]

\* an invocation that has passed the shortcut check of app.py:192 and is about to
\* enter `with counter_lock` at app.py:200. thread is the state of the Thread of
\* app.py:221, container the dict of app.py:219 (empty, or its 'response'),
\* messages the list of app.py:148, idx the position of the loop of app.py:156,
\* exc whether an exception is propagating through the finally block.
NewInvocation(text) ==
    [pc |-> "acquire", text |-> text, thread |-> "none", container |-> <<>>,
     xai_response |-> <<>>, messages |-> <<>>, idx |-> 0, calls |-> <<>>, exc |-> FALSE]

\* an invocation that has returned (or raised) to handler.handle: its locals are gone,
\* what stays is how it ended and the external calls it made
Ended(how, calls) ==
    [pc |-> how, text |-> <<>>, thread |-> "none", container |-> <<>>,
     xai_response |-> <<>>, messages |-> <<>>, idx |-> 0, calls |-> calls, exc |-> FALSE]

TerminalPcs == {"replied_canned", "replied_busy", "replied_generated", "raised"}

Live == BagToSet(invocations)

\* the bag with invocation r replaced by s
Moved(r, s) == (invocations (-) SetToBag({r})) (+) SetToBag({s})

TypeOK ==
    /\ current_requests \in Int
    /\ counter_lock \in BOOLEAN
    /\ pending \in Nat
    /\ IsABag(invocations)

-----------------------------------------------------------------------------
(* Pure parts of the handlers *)

\* app.py:192 without the strip()
IsShortcutUnstripped(text) == text \in SHORTCUT_QUERIES

\* app.py:192
IsShortcut(text) == strip(text) \in SHORTCUT_QUERIES

\* call_xai_api, app.py:111-121
call_xai_api(o) ==
    IF o.raises THEN ERR_EXCEPTION
    ELSE IF o.status_code = 200 THEN o.content
    ELSE ERR_STATUS

\* get_api_response, app.py:170-174: the container after the thread has run.
\* call_xai_api catches every Exception itself, so the except branch is not entered.
get_api_response(o, container) == <<call_xai_api(o)>>

\* container.get('response', default), app.py:228
ContainerGet(container, default) == IF container = <<>> THEN default ELSE container[1]

\* app.py:232 with == in place of in: the block is appended only when the stripped
\* text is the trigger itself
AugmentOnExactMatch(text, xai_response) ==
    IF strip(text) = TRIGGER
    THEN xai_response \o SEPARATOR \o EXTRA_BLOCK
    ELSE xai_response

\* app.py:212 and app.py:232-233
Augment(text, xai_response) ==
    IF Contains(strip(text), TRIGGER)
    THEN xai_response \o SEPARATOR \o EXTRA_BLOCK
    ELSE xai_response

\* send_loading_animation, app.py:71-90: an error of the API call is logged and
\* absorbed, the function returns normally either way
send_loading_animation(calls, api_ok) == Append(calls, Call("show_loading", <<>>, TRUE))

\* app.py:201 with > in place of >=
AtCeilingOffByOne(n) == n > MAX_CONCURRENT_REQUESTS

\* app.py:201
AtCeiling(n) == n >= MAX_CONCURRENT_REQUESTS

\* reply_long_text, app.py:150-154: the messages handed to the one reply call
ReplyBatch(messages) ==
    IF Len(messages) <= REPLY_LIMIT THEN messages ELSE SubSeq(messages, 1, REPLY_LIMIT)

\* app.py:156 with messages[4:] in place of messages[5:]
AfterReplyResendsFifth(r, ok) ==
    IF ok /\ Len(r.messages) > REPLY_LIMIT
    THEN [r EXCEPT !.pc = "push", !.idx = REPLY_LIMIT]
    ELSE [r EXCEPT !.pc = "finally"]

\* app.py:149-164 with the push loop outside the try of the reply call: the pushes
\* are made although the reply call failed
AfterReplyPushesAfterFailure(r, ok) ==
    IF Len(r.messages) > REPLY_LIMIT
    THEN [r EXCEPT !.pc = "push", !.idx = REPLY_LIMIT + 1]
    ELSE [r EXCEPT !.pc = "finally"]

\* app.py:149-164 with a failed reply call made again
AfterReplyRetries(r, ok) ==
    IF ~ok THEN [r EXCEPT !.pc = "deliver"]
    ELSE IF Len(r.messages) > REPLY_LIMIT
    THEN [r EXCEPT !.pc = "push", !.idx = REPLY_LIMIT + 1]
    ELSE [r EXCEPT !.pc = "finally"]

\* reply_long_text, app.py:149-164: where control goes after the reply call
AfterReply(r, ok) ==
    IF ok /\ Len(r.messages) > REPLY_LIMIT
    THEN [r EXCEPT !.pc = "push", !.idx = REPLY_LIMIT + 1]
    ELSE [r EXCEPT !.pc = "finally"]

\* app.py:156-162 without the inner try: a failed push is caught at app.py:163 and
\* ends the loop
AfterPushStopsOnFailure(r, ok) ==
    IF ok /\ r.idx < Len(r.messages)
    THEN [r EXCEPT !.idx = r.idx + 1]
    ELSE [r EXCEPT !.pc = "finally", !.idx = 0]

\* reply_long_text, app.py:156-162: where control goes after the push of messages[idx]
AfterPush(r, ok) ==
    IF r.idx < Len(r.messages)
    THEN [r EXCEPT !.idx = r.idx + 1]
    ELSE [r EXCEPT !.pc = "finally", !.idx = 0]

\* app.py:223-228 without the second join: the thread is abandoned at the timeout
\* and the container is read as it is
AfterTimeoutAbandons(r) ==
    [r EXCEPT !.pc = "deliver",
              !.xai_response = Augment(r.text, ContainerGet(r.container, DEFAULT_RESPONSE))]

\* app.py:223-225: what the handler does when join(timeout=15) returns with the
\* thread still alive
AfterTimeout(r) == [r EXCEPT !.pc = "join"]

\* app.py:238-240: how the invocation ends once the finally block has run
AfterFinally(r) == Ended(IF r.exc THEN "raised" ELSE "replied_generated", r.calls)

-----------------------------------------------------------------------------
(* handle_message, app.py:188-240, one action per step between two points where
   other threads can run *)

\* app.py:192-197: a shortcut query is answered at once; reply_message is not
\* guarded, so its exception leaves handle_message
ShortcutReply(texts) ==
    /\ pending > 0
    /\ \E text \in texts, ok \in BOOLEAN :
         /\ IsShortcut(text)
         /\ invocations' = invocations (+)
              SetToBag({Ended(IF ok THEN "replied_canned" ELSE "raised",
                              <<Call("reply", <<CANNED_REPLY>>, ok)>>)})
    /\ pending' = pending - 1
    /\ UNCHANGED <<current_requests, counter_lock, chunker>>

\* app.py:192 (no shortcut) up to the entry of `with counter_lock` at app.py:200
Receive(texts) ==
    /\ pending > 0
    /\ \E text \in texts :
         /\ ~IsShortcut(text)
         /\ invocations' = invocations (+) SetToBag({NewInvocation(text)})
    /\ pending' = pending - 1
    /\ UNCHANGED <<current_requests, counter_lock, chunker>>

\* app.py:200: counter_lock.acquire() returns
Acquire(r) ==
    /\ r.pc = "acquire"
    /\ ~counter_lock
    /\ counter_lock' = TRUE
    /\ invocations' = Moved(r, [r EXCEPT !.pc = "check"])
    /\ UNCHANGED <<current_requests, pending, chunker>>

\* app.py:201-208: at the ceiling the busy reply is sent with the lock held;
\* below it the counter is incremented and the with block is left
Check(r) ==
    /\ r.pc = "check"
    /\ IF AtCeiling(current_requests)
       THEN /\ invocations' = Moved(r, [r EXCEPT !.pc = "busy_reply"])
            /\ UNCHANGED <<current_requests, counter_lock>>
       ELSE /\ current_requests' = current_requests + 1
            /\ counter_lock' = FALSE
            /\ invocations' = Moved(r, [r EXCEPT !.pc = "loading"])
    /\ UNCHANGED <<pending, chunker>>

\* app.py:203-207 as if the busy return passed through the decrement of app.py:240
BusyReplyDecrements(r) ==
    /\ r.pc = "busy_reply"
    /\ \E ok \in BOOLEAN :
         invocations' = Moved(r, Ended(IF ok THEN "replied_busy" ELSE "raised",
                                       Append(r.calls, Call("reply", <<BUSY_REPLY>>, ok))))
    /\ counter_lock' = FALSE
    /\ current_requests' = current_requests - 1
    /\ UNCHANGED <<pending, chunker>>

\* app.py:203-207: reply_message returns or raises; either way the with block
\* releases the lock and handle_message is left
BusyReply(r) ==
    /\ r.pc = "busy_reply"
    /\ \E ok \in BOOLEAN :
         invocations' = Moved(r, Ended(IF ok THEN "replied_busy" ELSE "raised",
                                       Append(r.calls, Call("reply", <<BUSY_REPLY>>, ok))))
    /\ counter_lock' = FALSE
    /\ UNCHANGED <<current_requests, pending, chunker>>

\* app.py:211-216
SendLoading(r) ==
    /\ r.pc = "loading"
    /\ \E api_ok \in BOOLEAN :
         invocations' = Moved(r, [r EXCEPT !.pc = "spawn",
                                           !.calls = send_loading_animation(r.calls, api_ok)])
    /\ UNCHANGED <<current_requests, counter_lock, pending, chunker>>

\* app.py:219-222 as if the decrement stood at the end of the try body and not in
\* a finally block: the exception leaves handle_message at once
ThreadStartEscapesFinally(r) ==
    /\ r.pc = "spawn"
    /\ \E ok \in BOOLEAN :
         invocations' = Moved(r, IF ok THEN [r EXCEPT !.pc = "join15", !.thread = "running"]
                                 ELSE Ended("raised", r.calls))
    /\ UNCHANGED <<current_requests, counter_lock, pending, chunker>>

\* app.py:219-222: Thread.start() returns, or raises RuntimeError (no thread can be
\* created) and control goes to the finally block
ThreadStart(r) ==
    /\ r.pc = "spawn"
    /\ \E ok \in BOOLEAN :
         invocations' = Moved(r, IF ok THEN [r EXCEPT !.pc = "join15", !.thread = "running"]
                                 ELSE [r EXCEPT !.pc = "finally", !.exc = TRUE])
    /\ UNCHANGED <<current_requests, counter_lock, pending, chunker>>

\* the background thread: get_api_response runs to its end (app.py:166-174)
GenFinish(r, outcomes) ==
    /\ r.thread = "running"
    /\ \E o \in outcomes :
         invocations' = Moved(r, [r EXCEPT !.thread = "finished",
                                           !.container = get_api_response(o, r.container)])
    /\ UNCHANGED <<current_requests, counter_lock, pending, chunker>>

\* app.py:223-225: the 15 seconds pass with the thread alive
JoinTimeout(r) ==
    /\ r.pc = "join15"
    /\ r.thread = "running"
    /\ invocations' = Moved(r, AfterTimeout(r))
    /\ UNCHANGED <<current_requests, counter_lock, pending, chunker>>

\* app.py:223-233 as if an answer that arrives after the timeout were replaced by
\* the fallback text
JoinReturnDropsLateAnswer(r) ==
    /\ r.pc \in {"join15", "join"}
    /\ r.thread = "finished"
    /\ invocations' = Moved(r, [r EXCEPT !.pc = "deliver",
                                  !.xai_response =
                                      Augment(r.text, IF r.pc = "join" THEN DEFAULT_RESPONSE
                                                      ELSE ContainerGet(r.container, DEFAULT_RESPONSE))])
    /\ UNCHANGED <<current_requests, counter_lock, pending, chunker>>

\* app.py:223-233: the join returns because the thread has ended; the response is
\* read from the container and augmented
JoinReturn(r) ==
    /\ r.pc \in {"join15", "join"}
    /\ r.thread = "finished"
    /\ invocations' = Moved(r, [r EXCEPT !.pc = "deliver",
                                  !.xai_response =
                                      Augment(r.text, ContainerGet(r.container, DEFAULT_RESPONSE))])
    /\ UNCHANGED <<current_requests, counter_lock, pending, chunker>>

\* app.py:236 and reply_long_text, app.py:147-155: the text is split and the one
\* reply call is made; its exception is caught at app.py:163
Reply(r) ==
    /\ r.pc = "deliver"
    /\ LET messages == split_message(r.xai_response, MAX_LINE_MESSAGE_LENGTH)
           s == [r EXCEPT !.messages = messages]
       IN \E ok \in BOOLEAN :
            invocations' = Moved(r, AfterReply(
                [s EXCEPT !.calls = Append(r.calls, Call("reply", ReplyBatch(messages), ok))], ok))
    /\ UNCHANGED <<current_requests, counter_lock, pending, chunker>>

\* reply_long_text, app.py:156-162: one iteration of the push loop
Push(r) ==
    /\ r.pc = "push"
    /\ \E ok \in BOOLEAN :
         invocations' = Moved(r, AfterPush(
             [r EXCEPT !.calls = Append(r.calls, Call("push", <<r.messages[r.idx]>>, ok))], ok))
    /\ UNCHANGED <<current_requests, counter_lock, pending, chunker>>

\* app.py:239: counter_lock.acquire() returns in the finally block
AcquireRelease(r) ==
    /\ r.pc = "finally"
    /\ ~counter_lock
    /\ counter_lock' = TRUE
    /\ invocations' = Moved(r, [r EXCEPT !.pc = "release"])
    /\ UNCHANGED <<current_requests, pending, chunker>>

\* app.py:240: the decrement, the exit of the with block and of handle_message
Release(r) ==
    /\ r.pc = "release"
    /\ current_requests' = current_requests - 1
    /\ counter_lock' = FALSE
    /\ invocations' = Moved(r, AfterFinally(r))
    /\ UNCHANGED <<pending, chunker>>

-----------------------------------------------------------------------------
(* Specifications *)

\* no call of split_message on its own is under way
NoChunker == [pc |-> "idle", arg |-> <<>>, max_length |-> 0, text |-> <<>>, parts |-> <<>>]

Start(n) ==
    /\ current_requests = 0
    /\ counter_lock = FALSE
    /\ pending = n
    /\ invocations = EmptyBag
    /\ chunker = NoChunker

\* the process after start-up, with NumInvocations webhook events to come
Init == Start(NumInvocations)

\* The upstream answers of GateOutcomes are short, so reply_long_text needs no push
\* and Push is never enabled.
Next ==
    \/ ShortcutReply(GateTexts)
    \/ Receive(GateTexts)
    \/ \E r \in Live : Acquire(r)
    \/ \E r \in Live : Check(r)
    \/ \E r \in Live : BusyReply(r)
    \/ \E r \in Live : SendLoading(r)
    \/ \E r \in Live : ThreadStart(r)
    \/ \E r \in Live : GenFinish(r, GateOutcomes)
    \/ \E r \in Live : JoinTimeout(r)
    \/ \E r \in Live : JoinReturn(r)
    \/ \E r \in Live : Reply(r)
    \/ \E r \in Live : AcquireRelease(r)
    \/ \E r \in Live : Release(r)

\* concurrent invocations around the admission gate
Spec == Init /\ [][Next]_vars

\* the same with fair scheduling: every thread that can take a step eventually
\* takes one, and every external call eventually returns or raises. Every step of
\* Next moves one invocation forward and none moves one back, so fairness of Next
\* as a whole lets no invocation be passed over for ever.
SpecFair == Spec /\ WF_vars(Next)

\* one webhook event
InitDeliver == Start(1)

\* A single invocation never finds the counter at the ceiling, so BusyReply is
\* never enabled.
NextDeliver ==
    \/ ShortcutReply(DeliverTexts)
    \/ Receive(DeliverTexts)
    \/ \E r \in Live : Acquire(r)
    \/ \E r \in Live : Check(r)
    \/ \E r \in Live : SendLoading(r)
    \/ \E r \in Live : ThreadStart(r)
    \/ \E r \in Live : GenFinish(r, DeliverOutcomes)
    \/ \E r \in Live : JoinTimeout(r)
    \/ \E r \in Live : JoinReturn(r)
    \/ \E r \in Live : Reply(r)
    \/ \E r \in Live : Push(r)
    \/ \E r \in Live : AcquireRelease(r)
    \/ \E r \in Live : Release(r)

\* one invocation, with every kind of text and of upstream answer
SpecDeliver == InitDeliver /\ [][NextDeliver]_vars

-----------------------------------------------------------------------------
(* split_message called on its own, app.py:123-139, one action per iteration of
   its loop. reply_long_text always passes MAX_LINE_MESSAGE_LENGTH; the function
   takes any max_length, and here it is called with short texts and small lengths. *)

\* the longest text split_message is called with
MaxTextLen == 5

\* the largest max_length split_message is called with
MaxSplitLength == 4

\* a letter, the two characters split_message cuts at, and a whitespace character
\* it does not cut at
SplitAlphabet == {97, SPACE, NEWLINE, 9}

SplitTexts == UNION {[1..n -> SplitAlphabet] : n \in 0..MaxTextLen}

\* split_message(text, max_length) at app.py:128: arg keeps the argument, text is
\* the local the loop shortens
Called(text, max_length) ==
    [pc |-> "loop", arg |-> text, max_length |-> max_length, text |-> text, parts |-> <<>>]

\* app.py:129-136 without the lstrip of app.py:136
SplitIterKeepsWhitespace ==
    /\ chunker.pc = "loop"
    /\ Len(chunker.text) > chunker.max_length
    /\ LET split_pos == SplitPos(chunker.text, chunker.max_length)
       IN chunker' = [chunker EXCEPT
            !.parts = Append(@, rstrip(Slice(chunker.text, 0, split_pos))),
            !.text = Slice(chunker.text, split_pos, Len(chunker.text))]
    /\ UNCHANGED <<current_requests, counter_lock, pending, invocations>>

\* app.py:129-136 with text[split_pos + 1:] at app.py:136: the character at the cut
\* is skipped as if it always were a separator
SplitIterSkipsCutCharacter ==
    /\ chunker.pc = "loop"
    /\ Len(chunker.text) > chunker.max_length
    /\ LET split_pos == SplitPos(chunker.text, chunker.max_length)
       IN chunker' = [chunker EXCEPT
            !.parts = Append(@, rstrip(Slice(chunker.text, 0, split_pos))),
            !.text = lstrip(Slice(chunker.text, split_pos + 1, Len(chunker.text)))]
    /\ UNCHANGED <<current_requests, counter_lock, pending, invocations>>

\* app.py:129-136: one iteration of the while loop
SplitIter ==
    /\ chunker.pc = "loop"
    /\ Len(chunker.text) > chunker.max_length
    /\ LET split_pos == SplitPos(chunker.text, chunker.max_length)
       IN chunker' = [chunker EXCEPT
            !.parts = Append(@, rstrip(Slice(chunker.text, 0, split_pos))),
            !.text = lstrip(Slice(chunker.text, split_pos, Len(chunker.text)))]
    /\ UNCHANGED <<current_requests, counter_lock, pending, invocations>>

\* app.py:137-139 with the remainder trimmed before it is appended
SplitEndTrims ==
    /\ chunker.pc = "loop"
    /\ Len(chunker.text) <= chunker.max_length
    /\ chunker' = [chunker EXCEPT
            !.parts = IF strip(chunker.text) # <<>> THEN Append(@, strip(chunker.text)) ELSE @,
            !.pc = "done"]
    /\ UNCHANGED <<current_requests, counter_lock, pending, invocations>>

\* app.py:129 (the loop ends) and app.py:137-139
SplitEnd ==
    /\ chunker.pc = "loop"
    /\ Len(chunker.text) <= chunker.max_length
    /\ chunker' = [chunker EXCEPT
            !.parts = IF chunker.text # <<>> THEN Append(@, chunker.text) ELSE @,
            !.pc = "done"]
    /\ UNCHANGED <<current_requests, counter_lock, pending, invocations>>

\* split_message has just been called with some text and some max_length > 0
InitSplit ==
    /\ current_requests = 0
    /\ counter_lock = FALSE
    /\ pending = 0
    /\ invocations = EmptyBag
    /\ chunker \in {Called(text, max_length) :
                       text \in SplitTexts, max_length \in 1..MaxSplitLength}

NextSplit == SplitIter \/ SplitEnd

SpecSplit == InitSplit /\ [][NextSplit]_vars

\* the thread that runs split_message keeps running
SpecSplitFair == SpecSplit /\ WF_vars(NextSplit)

-----------------------------------------------------------------------------
(* Properties *)

\* the number of invocations, counted with multiplicity, that are in the set S
CountOf(S) == BagCardinality([r \in S \cap Live |-> CopiesIn(r, invocations)])

\* the positions of handle_message between the increment of app.py:208 and the
\* decrement of app.py:240
HoldingPcs == {"loading", "spawn", "join15", "join", "deliver", "push", "finally", "release"}

Holding == {r \in Live : r.pc \in HoldingPcs}

Running == {r \in Live : r.thread = "running"}

AllEnded == pending = 0 /\ \A r \in Live : r.pc \in TerminalPcs

\* the external calls of an invocation from its reply call on
Delivery(r) == SelectSeq(r.calls, LAMBDA c : c.op \in {"reply", "push"})

Pushes(r) == SelectSeq(r.calls, LAMBDA c : c.op = "push")

\* reply_long_text has returned normally to handle_message
Delivered(r) == r.pc \in {"finally", "release"} /\ ~r.exc

\* C1: in every reachable state of any interleaving of the invocations the shared
\* counter stays within 0..MAX_CONCURRENT_REQUESTS.
C1_CounterWithinCeiling == current_requests \in 0..MAX_CONCURRENT_REQUESTS

\* the counter is at the ceiling while a further invocation is being turned away
C1_Witness ==
    /\ current_requests = MAX_CONCURRENT_REQUESTS
    /\ \E r \in Live : r.pc = "busy_reply"

\* C2: the counter equals the number of admitted invocations that have not finished
\* (every admitted invocation decrements it exactly once, on the exception path
\* too, and no other invocation decrements it), and it is 0 once all have finished.
C2_TicketAccounting ==
    /\ current_requests = CountOf(Holding)
    /\ AllEnded => current_requests = 0

\* every invocation has finished: one was turned away, one was admitted and left
\* by an exception, the others delivered their answer
C2_Witness ==
    /\ AllEnded
    /\ \E r \in Live : r.pc = "replied_busy"
    /\ \E r \in Live : r.pc = "replied_generated"
    /\ \E r \in Live : r.pc = "raised" /\ r.calls = <<Call("show_loading", <<>>, TRUE)>>

\* C3: at most MAX_CONCURRENT_REQUESTS generation threads run at the same time, and
\* a running thread belongs to an invocation that holds its ticket and waits in join.
C3_GenerationWithinCeiling ==
    /\ CountOf(Running) <= MAX_CONCURRENT_REQUESTS
    /\ \A r \in Running : r.pc \in {"join15", "join"} /\ r \in Holding

\* as many generation threads as the ceiling allows run at once
C3_Witness == CountOf(Running) = MAX_CONCURRENT_REQUESTS

\* C4: an invocation that finds the counter at the ceiling sends the busy reply,
\* having started neither the loading indicator nor a generation thread, leaves the
\* counter as it is and ends at once; once ended it never takes another step.
C4_BusyIsImmediateAndFinal ==
    /\ [](\A r \in Live :
            /\ r.pc = "busy_reply" =>
                 /\ current_requests = MAX_CONCURRENT_REQUESTS
                 /\ r.calls = <<>> /\ r.thread = "none"
            /\ r.pc = "replied_busy" => r.calls = <<Call("reply", <<BUSY_REPLY>>, TRUE)>>)
    /\ [][\A r \in Live :
            /\ (r.pc = "check" /\ current_requests = MAX_CONCURRENT_REQUESTS
                    /\ CopiesIn(r, invocations') < CopiesIn(r, invocations))
                 => /\ invocations' = Moved(r, [r EXCEPT !.pc = "busy_reply"])
                    /\ current_requests' = current_requests
            /\ (r.pc = "busy_reply" /\ CopiesIn(r, invocations') < CopiesIn(r, invocations))
                 => /\ \E ok \in BOOLEAN :
                         invocations' = Moved(r,
                             Ended(IF ok THEN "replied_busy" ELSE "raised",
                                   <<Call("reply", <<BUSY_REPLY>>, ok)>>))
                    /\ current_requests' = current_requests
            /\ r.pc = "replied_busy"
                 => CopiesIn(r, invocations') >= CopiesIn(r, invocations)]_vars

\* an invocation has been turned away, the others have since finished and the
\* counter is back at 0: the one turned away stays ended
C4_Witness ==
    /\ AllEnded
    /\ current_requests = 0
    /\ \E r \in Live : r.pc = "replied_busy"

\* the invocations that took the shortcut of app.py:192-197
Canned == {r \in Live : r.calls # <<>> /\ r.calls[1].op = "reply"
                          /\ r.calls[1].messages = <<CANNED_REPLY>>}

\* C5: a message whose stripped text is a shortcut query never enters the admission
\* gate; it gets the canned reply and nothing else, and the step that handles it
\* leaves the counter and the lock as they are, whatever the counter is.
C5_ShortcutBypassesGate ==
    /\ [](\A r \in Live :
            /\ r.pc \notin TerminalPcs => strip(r.text) \notin SHORTCUT_QUERIES
            /\ r \in Canned =>
                 /\ r.pc \in {"replied_canned", "raised"}
                 /\ r.calls = <<Call("reply", <<CANNED_REPLY>>, r.pc = "replied_canned")>>)
    /\ [][CountOf(Canned)' # CountOf(Canned) =>
            /\ CountOf(Canned)' = CountOf(Canned) + 1
            /\ current_requests' = current_requests
            /\ counter_lock' = counter_lock
            /\ CountOf(Running)' = CountOf(Running)]_vars

\* a shortcut query has been answered while the five other messages of the run hold
\* all the tickets
C5_Witness ==
    /\ pending = 0
    /\ current_requests = MAX_CONCURRENT_REQUESTS
    /\ \E r \in Live : r.pc = "replied_canned"

\* C6: in no reachable state does one invocation wait for counter_lock while
\* another holds it across an external call.
C6_NoWaitBehindExternalCall ==
    \A r, s \in Live : ~(r.pc = "busy_reply" /\ s.pc \in {"acquire", "finally"})

\* C7: delivery starts only after the generation thread has finished, the thread
\* is never cancelled, and the text handed to delivery is the value the thread put
\* in the container (augmented), also when the thread outlasted the timeout.
C7_SoftTimeout ==
    /\ [](\A r \in Live :
            /\ r \in Running => r.pc \in {"join15", "join"}
            /\ (r.pc \in {"deliver", "push"} \/ Delivered(r)) =>
                 /\ r.thread = "finished"
                 /\ r.container # <<>>
                 /\ r.xai_response = Augment(r.text, r.container[1])
            /\ (r.pc = "push" \/ Delivered(r)) =>
                 Delivery(r)[1].messages =
                     ReplyBatch(split_message(r.xai_response, MAX_LINE_MESSAGE_LENGTH)))
    /\ [][\A r \in Running :
            CopiesIn(r, invocations') < CopiesIn(r, invocations) =>
                \/ \E c \in {call_xai_api(o) : o \in DeliverOutcomes} :
                     invocations' = Moved(r, [r EXCEPT !.thread = "finished",
                                                       !.container = <<c>>])
                \/ r.pc = "join15" /\ invocations' = Moved(r, [r EXCEPT !.pc = "join"])]_vars

\* the upstream call outlasted the 15 seconds, has now returned a two-segment
\* answer, and the handler waiting in the second join is about to deliver it
C7_Witness ==
    \E r \in Live : /\ r.pc = "join"
                    /\ r.thread = "finished"
                    /\ r.container = <<SolidText(2)>>

\* C8: no invocation of handle_message ends by raising to its caller.
C8_NoExceptionEscapes == \A r \in Live : r.pc # "raised"

\* C9: when reply_long_text has returned, with n segments: if n <= 5 it has made
\* one reply call with all n segments in order and no push; if n > 5 it has made one
\* reply call with segments 1..5 and, when that call succeeded, after it one push
\* per segment 6..n in order.
C9_ReplyThenPushes ==
    \A r \in Live : Delivered(r) =>
        LET n == Len(r.messages)
            d == Delivery(r)
        IN /\ r.messages = split_message(r.xai_response, MAX_LINE_MESSAGE_LENGTH)
           /\ d # <<>>
           /\ d[1].op = "reply"
           /\ \A i \in 2..Len(d) : d[i].op = "push"
           /\ n <= 5 => d[1].messages = r.messages /\ Len(d) = 1
           /\ n > 5 =>
                /\ d[1].messages = SubSeq(r.messages, 1, 5)
                /\ d[1].ok =>
                     /\ Len(d) = 1 + (n - 5)
                     /\ \A i \in 6..n : d[i - 4].messages = <<r.messages[i]>>

\* a seven-segment answer: one successful reply call and the two pushes after it
C9_Witness ==
    \E r \in Live : /\ Delivered(r)
                    /\ Len(r.messages) = 7
                    /\ Delivery(r)[1].ok
                    /\ Len(Pushes(r)) = 2

\* C10: in the push loop a failed push does not stop the sequence: the pushes made
\* so far are those of segments 6, 7, ... in order, once each, whatever their
\* outcome; the loop goes on to the next segment, and when reply_long_text has
\* returned after a successful reply every segment 6..n has been attempted.
C10_PushFailureDoesNotStop ==
    \A r \in Live : (r.pc = "push" \/ (Delivered(r) /\ Pushes(r) # <<>>)) =>
        LET n == Len(r.messages)
            p == Pushes(r)
        IN /\ \A j \in 1..Len(p) : p[j].messages = <<r.messages[5 + j]>>
           /\ r.pc = "push" => r.idx = 5 + Len(p) + 1 /\ r.idx <= n
           /\ Delivered(r) => Len(p) = n - 5

\* the push of segment 6 failed and segment 7 was pushed all the same
C10_Witness ==
    \E r \in Live : /\ Delivered(r)
                    /\ Len(r.messages) = 7
                    /\ Len(Pushes(r)) = 2
                    /\ ~Pushes(r)[1].ok
                    /\ Pushes(r)[2].ok
                    /\ Pushes(r)[2].messages = <<r.messages[7]>>

\* the reply call of an invocation, once reply_long_text has made it
ReplyCall(r) == Delivery(r)[1]

\* C11: when the reply call of reply_long_text fails, delivery is abandoned: the
\* reply is not made again and no push is made, however many segments there are,
\* and the invocation goes on to the finally block and ends with its ticket released.
C11_FailedReplyAbandonsDelivery ==
    \A r \in Live :
        (Delivery(r) # <<>> /\ ReplyCall(r).op = "reply"
             /\ ReplyCall(r).messages # <<CANNED_REPLY>> /\ ~ReplyCall(r).ok) =>
            /\ Len(Delivery(r)) = 1
            /\ r.pc \in {"finally", "release", "replied_generated"}
            /\ r.pc \in {"finally", "release"} <=> current_requests = 1
            /\ r.pc = "replied_generated" <=> current_requests = 0

\* a seven-segment answer whose reply call failed: the invocation has ended having
\* made that one call for segments 1..5 and no push, and the counter is back at 0
C11_Witness ==
    /\ current_requests = 0
    /\ \E r \in Live :
         /\ r.pc = "replied_generated"
         /\ Len(Delivery(r)) = 1
         /\ ~ReplyCall(r).ok
         /\ ReplyCall(r).messages = SubSeq(split_message(SolidText(7), 1000), 1, 5)

-----------------------------------------------------------------------------
(* Properties of split_message *)

SplitDone == chunker.pc = "done"

\* the loop of the step-wise split_message computes what the function
\* split_message used by reply_long_text computes
ChunkerAgrees == SplitDone => chunker.parts = split_message(chunker.arg, chunker.max_length)

\* C12: for every text and every max_length > 0, every segment split_message
\* emits has length <= max_length.
C12_SegmentsWithinMaxLength ==
    \A i \in 1..Len(chunker.parts) : Len(chunker.parts[i]) <= chunker.max_length

\* a text cut into three segments, one of them of exactly max_length characters
C12_Witness ==
    /\ SplitDone
    /\ Len(chunker.parts) = 3
    /\ \E i \in 1..3 : Len(chunker.parts[i]) = chunker.max_length

\* C13: split_message never emits an empty segment, and it returns the empty
\* sequence only for the empty text.
C13_NoEmptySegment ==
    /\ \A i \in 1..Len(chunker.parts) : chunker.parts[i] # <<>>
    /\ (SplitDone /\ chunker.parts = <<>>) => chunker.arg = <<>>

\* s without its whitespace characters
WithoutWhitespace(s) == SelectSeq(s, LAMBDA c : c \notin Whitespace)

RECURSIVE Joined(_)
\* the concatenation of the sequences of ss
Joined(ss) == IF ss = <<>> THEN <<>> ELSE Head(ss) \o Joined(Tail(ss))

RECURSIVE InOrderFrom(_, _, _)
\* the sequences of ss occur in s one after the other, without overlap, at or after
\* the 0-based position from (each at its first possible place)
InOrderFrom(ss, s, from) ==
    IF ss = <<>> THEN TRUE
    ELSE LET p == Head(ss)
             at == {o \in from..(Len(s) - Len(p)) : SubSeq(s, o + 1, o + Len(p)) = p}
         IN at # {} /\ InOrderFrom(Tail(ss), s,
                                   (CHOOSE o \in at : \A q \in at : o <= q) + Len(p))

\* C14: split_message drops, duplicates and reorders nothing but whitespace: the
\* segments joined, with the whitespace deleted, are the input with the whitespace
\* deleted, and the segments are substrings of the input, in order and disjoint.
C14_OnlyWhitespaceIsLost ==
    SplitDone =>
        /\ WithoutWhitespace(Joined(chunker.parts)) = WithoutWhitespace(chunker.arg)
        /\ InOrderFrom(chunker.parts, chunker.arg, 0)

\* a text cut once at a space, which is dropped, and once inside a word
C14_Witness ==
    /\ SplitDone
    /\ chunker.max_length = 2
    /\ chunker.arg = <<97, SPACE, 97, 97, 97>>
    /\ chunker.parts = << <<97>>, <<97, 97>>, <<97>> >>

\* C15: split_message of the empty text returns the empty sequence, and of a
\* (non-empty) text shorter than max_length the one segment that is the text itself.
C15_EmptyAndShortTexts ==
    SplitDone =>
        /\ chunker.arg = <<>> => chunker.parts = <<>>
        /\ (chunker.arg # <<>> /\ Len(chunker.arg) < chunker.max_length)
               => chunker.parts = <<chunker.arg>>

\* a short text with whitespace at both ends comes back as it is
C15_Witness ==
    /\ SplitDone
    /\ chunker.arg = <<SPACE, 97, NEWLINE>>
    /\ chunker.max_length = 4
    /\ chunker.parts = << <<SPACE, 97, NEWLINE>> >>

-----------------------------------------------------------------------------
(* Properties of the text handle_message delivers *)

\* the stripped message text holds the two characters of the keyword side by side
HasKeyword(text) ==
    LET user_message == strip(text)
    IN \E i \in 1..(Len(user_message) - 1) :
           user_message[i] = 23450 /\ user_message[i + 1] = 32681

\* the generated text of an invocation: what the thread left in the container, or
\* the fallback text
Generated(r) == IF r.container = <<>> THEN ERR_STATUS ELSE r.container[1]

\* C16: the text handed to reply_long_text is the generated text followed by a blank
\* line and the supplementary block exactly when the stripped message contains the
\* keyword, and the generated text alone otherwise; the block is appended once, and
\* before the text is cut into segments.
C16_BlockIffKeyword ==
    \A r \in Live : (r.pc \in {"deliver", "push"} \/ Delivered(r)) =>
        LET sent == IF HasKeyword(r.text)
                    THEN Generated(r) \o <<NEWLINE, NEWLINE>> \o EXTRA_BLOCK
                    ELSE Generated(r)
        IN /\ r.xai_response = sent
           /\ r.pc # "deliver" =>
                /\ r.messages = split_message(sent, MAX_LINE_MESSAGE_LENGTH)
                /\ ReplyCall(r).messages = SubSeq(r.messages, 1, IF Len(r.messages) < 5
                                                                 THEN Len(r.messages) ELSE 5)

\* a message with the keyword between other characters, answered with a text of one
\* full segment and one character: the block travels in the second segment
C16_Witness ==
    \E r \in Live :
        /\ Delivered(r)
        /\ r.text = <<32, 80, 68, 77, 23450, 32681, 63, 10>>
        /\ r.container = <<SolidText(2)>>
        /\ Len(r.messages) = 2
        /\ r.messages[2] = <<97, NEWLINE, NEWLINE>> \o EXTRA_BLOCK
        /\ ReplyCall(r).messages = r.messages

\* the reply_message calls of an invocation
Replies(r) == SelectSeq(r.calls, LAMBDA c : c.op = "reply")

\* C18: an invocation makes at most one reply_message call, and every push_message
\* call it makes comes after that call.
C18_OneReplyThenPushes ==
    \A r \in Live :
        /\ Len(Replies(r)) <= 1
        /\ \A i \in 1..Len(r.calls) :
               r.calls[i].op = "push" => \E j \in 1..(i - 1) : r.calls[j].op = "reply"

\* an invocation that has returned after one reply call and the two pushes after it
C18_Witness ==
    \E r \in Live :
        /\ r.pc = "replied_generated"
        /\ Len(Replies(r)) = 1
        /\ Len(Pushes(r)) = 2
        /\ r.calls[Len(r.calls) - 2].op = "reply"

-----------------------------------------------------------------------------
(* Termination of handle_message *)

\* every invocation has returned or raised, the counter is back at 0 and the lock free
Quiescent == AllEnded /\ current_requests = 0 /\ ~counter_lock

\* under fair scheduling every invocation ends, by returning or by raising, and
\* every ticket is given back
EventuallyQuiescent == <>[]Quiescent

\* C17: under fair scheduling, with every external call eventually returning or
\* raising, every invocation ends in one of the terminal states canned, busy,
\* generated or error-fallback (an answer that is the fallback text is a generated
\* one here), every ticket is released, and nobody waits for ever for the lock or
\* for the background thread.
C17_EveryInvocationTerminates ==
    <>[](Quiescent /\ \A r \in Live :
                          r.pc \in {"replied_canned", "replied_busy", "replied_generated"})

-----------------------------------------------------------------------------
(* Termination and cut rule of split_message *)

\* a step of the chunker that is one iteration of the while loop
IsIteration == chunker.pc = "loop" /\ chunker'.pc = "loop" /\ chunker' # chunker

\* a step of the chunker that leaves the while loop and returns
IsReturn == chunker.pc = "loop" /\ chunker'.pc = "done"

\* C19: split_message terminates for every text and every max_length > 0: every
\* iteration of the loop leaves a strictly shorter text (also when it cuts at
\* position 0 or emits a segment of nothing but whitespace), and the loop is left
\* with a remainder of at most max_length characters, which becomes the last
\* segment only if it is not empty.
C19_SplitTerminates ==
    /\ <>SplitDone
    /\ [][IsIteration => Len(chunker'.text) < Len(chunker.text)]_vars
    /\ [][IsReturn =>
            /\ Len(chunker.text) <= chunker.max_length
            /\ chunker'.parts = IF chunker.text = <<>> THEN chunker.parts
                                ELSE chunker.parts \o <<chunker.text>>]_vars

\* the function has returned after an iteration that cut at position 0 (the space
\* found there is the whole prefix) and emitted the empty segment
C19_Witness ==
    /\ SplitDone
    /\ chunker.max_length = 1
    /\ chunker.arg = <<SPACE, 97, 97>>
    /\ chunker.parts = << <<>>, <<97>>, <<97>> >>

\* the 0-based positions below n where s holds the character ch
PositionsOf(s, ch, n) == {i \in 0..(n - 1) : i < Len(s) /\ s[i + 1] = ch}

\* the greatest element of a non-empty set of numbers
Greatest(S) == CHOOSE x \in S : \A y \in S : y <= x

\* the cut position as the rule states it
CutRule(text, max_length) ==
    LET newlines == PositionsOf(text, NEWLINE, max_length)
        spaces == PositionsOf(text, SPACE, max_length)
        found == IF newlines # {} THEN Greatest(newlines)
                 ELSE IF spaces # {} THEN Greatest(spaces)
                 ELSE -1
    IN IF found = -1 \/ found < max_length \div 2 THEN max_length ELSE found

RECURSIVE WithoutTrailing(_)
\* s without the whitespace at its end
WithoutTrailing(s) ==
    IF s = <<>> \/ s[Len(s)] \notin Whitespace THEN s
    ELSE WithoutTrailing(SubSeq(s, 1, Len(s) - 1))

RECURSIVE WithoutLeading(_)
\* s without the whitespace at its start
WithoutLeading(s) ==
    IF s = <<>> \/ s[1] \notin Whitespace THEN s ELSE WithoutLeading(Tail(s))

\* C20: while the text is longer than max_length the cut is at the last newline
\* among the first max_length characters, at the last space there only when that
\* prefix has no newline at all, and at max_length when the position found is
\* absent or below max_length div 2 (a too-early newline is not replaced by a later
\* space); the segment emitted is the prefix up to the cut without its trailing
\* whitespace, the remainder loses its leading whitespace.
C20_CutPointRule ==
    [][IsIteration =>
        LET cut == CutRule(chunker.text, chunker.max_length)
        IN /\ Len(chunker.text) > chunker.max_length
           /\ chunker'.parts =
                  Append(chunker.parts, WithoutTrailing(SubSeq(chunker.text, 1, cut)))
           /\ chunker'.text =
                  WithoutLeading(SubSeq(chunker.text, cut + 1, Len(chunker.text)))]_vars

\* a text whose first max_length characters hold a newline before the middle and a
\* space after it: the cut is at max_length, the space stays inside the segment
C20_Witness ==
    /\ chunker.max_length = 4
    /\ chunker.arg = <<NEWLINE, 97, SPACE, 97, 97>>
    /\ chunker.parts = << <<NEWLINE, 97, SPACE, 97>> >>
    /\ chunker.text = <<97>>

====
